---- MODULE Spec2Model ----
(***************************************************************************)
(* Owner dashboard: the client-side order ledger of the Dashboard screens  *)
(* (React state + the React Query cache entry "/api/orders"), the Order    *)
(* Store behind GET/POST/PATCH /api/orders, and the requests and push      *)
(* messages in flight between them.                                        *)
(*                                                                         *)
(*   SpecD2  Dashboard, second screen of client/src/pages/Dashboard.tsx    *)
(*           (uiOrders + resetTimestamp, lines 215-423)                    *)
(*   SpecD1  Dashboard, first screen of client/src/pages/Dashboard.tsx     *)
(*           (visibleOrderIds + resetTime in localStorage, lines 16-198)   *)
(*   SpecP7  Dashboard of unnamed/part_007 (completedOrders kept in        *)
(*           localStorage)                                                 *)
(*   SpecP3  Dashboard of unnamed/part_003                                 *)
(*   SpecPushD2, SpecPushD1  the screens behind useWebSocket and the       *)
(*           server's broadcasts (server/routes.ts)                        *)
(*   SpecD1Polling  first screen with the socket closed, polls succeeding  *)
(*   SpecD2Reload   second screen with page reloads                        *)
(*   SpecD2Timed    second screen's highlight timeout, clock in ms         *)
(*   SpecRevenue    the revenue sums on JavaScript numbers                 *)
(***************************************************************************)
EXTENDS Integers, Sequences, FiniteSets, TLC

\* ------------------------------------------------------------------ bounds
\* number of orders the store ever creates
MaxOrders == 1
\* last value of the wall clock (Date.now())
MaxTime == 2
\* number of times the Complete button is pressed
MaxClicks == 1
\* number of times Complete is pressed on the part_007 screen
MaxCompletes == 2
\* number of orders created while the push channel and the highlight timer are watched
MaxPushOrders == 2
\* last value of the wall clock, in ms, while the highlight timer is watched
MaxClock == 12000
\* length of the order list the revenue arithmetic is applied to
MaxRawOrders == 2
\* cap on the messages sent to the socket and not yet handled
MaxInFlight == 2
\* number of WebSocket clients the server has seen
MaxClients == 2
\* number of HTTP requests the server handles
MaxRequests == 3
\* number of times the useWebSocket effect runs (mount and dependency changes)
MaxEffects == 2
\* number of times connectWithUnmountGuard gets to `new WebSocket`
MaxAttempts == 3
\* number of messages the sockets of the hook receive
MaxHookMessages == 2
\* last value of the wall clock, in ms, while the hook is watched
MaxHookClock == 7000
\* characters of an item string drawn from ItemChars
MaxItemChars == 4
\* orders given to the statistics cards
MaxStatOrders == 3
\* sampleOrders.length
MaxSamples == 2
\* times the simulator's interval fires
MaxSimulatorTicks == 5

VARIABLES
  now,              \* wall clock, Date.now()
  store,            \* Order Store: sequence of orders, store[i].id = i
  pushQ,            \* ids of the NEW_ORDER messages broadcast and not yet delivered
  poll,             \* the query's fetch in flight (React Query runs one per query key)
  patches,          \* per order id: PATCH requests sent / answered ok / answered not ok
  clicks,           \* mutate() invocations so far
  queryData,        \* React Query cache entry ["/api/orders"] (orders / allOrders)
  totalRevenue,     \* useState totalRevenue
  newOrderIds,      \* useState newOrderIds (highlighted set)
  resetTimestamp,   \* second screen: useState resetTimestamp (0 is null)
  uiOrders,         \* second screen: useState uiOrders
  resetTime,        \* first screen: useState resetTime
  visibleOrderIds,  \* first screen: useState visibleOrderIds
  localStorage,     \* first screen: dashboard_reset_time, visible_order_ids
  completedOrders,  \* part_007: useState completedOrders
  revenue,          \* part_007: useState revenue
  savedCompleted,   \* part_007: localStorage "completedOrders"
  wsQ,              \* useWebSocket: messages the server sent to the open socket, not yet handled
  timer,            \* second screen: deadline of the pending highlight timeout (0 is none)
  insertedAt,       \* per order id: the time handleNewOrder last highlighted it (0 is never)
  rawOrders,        \* revenue arithmetic: the orders as JSON.parse returns them
  jsRevenue,        \* revenue arithmetic: totalRevenue as a JavaScript number
  clients,          \* server: wss.clients, per client its readyState and what was sent to it
  response,         \* server: the answer to the last HTTP request
  requests,         \* server: HTTP requests handled so far
  hook,             \* useWebSocket: effect instances, sockets, timeouts, the two refs
  card,             \* OrderCard: the items prop of the order and the safeItems rendered
  stats,            \* statistics cards: the orders given and the figures shown
  baseline,         \* baseline-counter screens: server rows, component state, what is shown
  simulator,        \* server: the order simulator's interval callbacks
  effects           \* what the last handler emitted: sound, toasts

envVars == <<now, store, pushQ, poll, patches, clicks>>
d2Vars == <<queryData, totalRevenue, newOrderIds, resetTimestamp, uiOrders>>
d1Vars == <<resetTime, visibleOrderIds, localStorage>>
p7Vars == <<completedOrders, revenue, savedCompleted>>
serverVars == <<clients, response, requests>>
moreVars == <<card, stats, baseline, simulator>>
lateVars == <<serverVars, hook, moreVars>>
sideVars == <<wsQ, timer, insertedAt, rawOrders, jsRevenue, lateVars>>
\* every variable of the dashboard screens and their channels, but the clock
screenVarsNoClock ==
  <<pushQ, poll, patches, clicks, queryData, totalRevenue, newOrderIds,
    resetTimestamp, uiOrders, resetTime, visibleOrderIds, localStorage, completedOrders,
    revenue, savedCompleted, wsQ, timer, insertedAt, rawOrders, jsRevenue, effects>>
screenVars == <<now, screenVarsNoClock>>
clientVars == <<queryData, totalRevenue, newOrderIds, resetTimestamp, uiOrders, resetTime,
                visibleOrderIds, localStorage, completedOrders, revenue, savedCompleted,
                wsQ, timer, insertedAt, rawOrders, jsRevenue, lateVars, effects>>
vars == <<now, store, pushQ, poll, patches, clicks, queryData, totalRevenue,
          newOrderIds, resetTimestamp, uiOrders, resetTime, visibleOrderIds,
          localStorage, completedOrders, revenue, savedCompleted, wsQ, timer,
          insertedAt, rawOrders, jsRevenue, lateVars, effects>>

Ids == 1..MaxOrders
PushIds == 1..MaxPushOrders
Clients == 1..MaxClients

\* ------------------------------------------------------------------ helpers
\* the amount the store gives order id (field `total`)
TotalOf(id) == 2 * id + 3

\* old.map(o => o.id === id ? {...o, status: "completed"} : o)
MarkCompleted(s, id) ==
  [i \in 1..Len(s) |-> IF s[i].id = id THEN [s[i] EXCEPT !.status = "completed"] ELSE s[i]]

\* old.find(o => o.id === id) is truthy
Exists(s, id) == \E i \in 1..Len(s) : s[i].id = id

RECURSIVE SumTotals(_)
\* .reduce((sum, o) => sum + parseFloat(o.total || 0), 0)
SumTotals(s) == IF s = <<>> THEN 0 ELSE s[1].total + SumTotals(Tail(s))

IsCompleted(o) == o.status = "completed"
IsPending(o) == o.status = "pending"

\* the order as the store first returns it
NewOrder(id, t) == [id |-> id, status |-> "pending", created_at |-> t, total |-> TotalOf(id)]

IdlePoll == [phase |-> "idle", rt |-> 0, data |-> <<>>]
NoPatch == [sent |-> 0, ok |-> 0, fail |-> 0]

\* a JavaScript number: an integer amount, or NaN
Num(v) == [nan |-> FALSE, val |-> v]
NaN == [nan |-> TRUE, val |-> 0]

\* ------------------------------------------------------------------ initial state
Init ==
  /\ now = 1
  /\ store = <<>>
  /\ pushQ = {}
  /\ poll = IdlePoll
  /\ patches = [id \in Ids |-> NoPatch]
  /\ clicks = 0
  /\ queryData = <<>>
  /\ totalRevenue = 0
  /\ newOrderIds = {}
  /\ resetTimestamp = 0
  /\ uiOrders = <<>>
  /\ resetTime = 0
  /\ visibleOrderIds = {}
  /\ localStorage = [dashboard_reset_time |-> 0, visible_order_ids |-> {}]
  /\ completedOrders = <<>>
  /\ revenue = 0
  /\ savedCompleted = <<>>
  /\ wsQ = <<>>
  /\ timer = 0
  /\ insertedAt = [id \in PushIds |-> 0]
  /\ rawOrders = <<>>
  /\ jsRevenue = Num(0)
  /\ clients = [c \in Clients |-> [open |-> FALSE, inbox |-> <<>>]]
  /\ response = [route |-> "none", code |-> 0]
  /\ requests = 0
  /\ hook = [mounted |-> FALSE, effect |-> 0, isUnmounted |-> <<>>, sockets |-> <<>>,
             wsRef |-> 0, timers |-> <<>>, reconnectTimeoutRef |-> 0, attempts |-> 0,
             received |-> 0, called |-> <<>>]
  /\ card = [items |-> <<>>, safeItems |-> <<>>, rendered |-> FALSE]
  /\ stats = [screen |-> "none", completed |-> <<>>, shown |-> [todayRevenue |-> 0, completedOrders |-> 0, averageOrderValue |-> 0]]
  /\ baseline = [screen |-> "none", orders |-> <<>>, totalRevenue |-> 0, baseRevenue |-> 0,
                 baseCompleted |-> 0, isLoading |-> TRUE,
                 localStorage |-> [base_revenue |-> 0, base_completed |-> 0,
                                   last_completed_id |-> 0]]
  /\ simulator = [orderIndex |-> 0, pending |-> <<>>, created |-> <<>>, broadcasts |-> <<>>,
                  ticks |-> 0]
  /\ effects = {}

\* ------------------------------------------------------------------ Order Store and channels
\* time passes
Tick ==
  /\ now < MaxTime
  /\ now' = now + 1
  /\ UNCHANGED <<store, pushQ, poll, patches, clicks>>
  /\ UNCHANGED clientVars

\* broadcast(): the message reaches the client only over an OPEN socket
Broadcast(q, id, open) == IF open THEN q \cup {id} ELSE q

\* POST /api/orders: createOrder, then broadcast NEW_ORDER
CreateOrder ==
  /\ Len(store) < MaxOrders
  /\ \E open \in BOOLEAN :
       LET id == Len(store) + 1 IN
         /\ store' = Append(store, NewOrder(id, now))
         /\ pushQ' = Broadcast(pushQ, id, open)
  /\ UNCHANGED <<now, poll, patches, clicks>>
  /\ UNCHANGED clientVars

\* GET /api/orders: the whole list, or a failure (500, network error)
PollServe ==
  /\ poll.phase = "sent"
  /\ \E ok \in BOOLEAN :
       poll' = IF ok THEN [poll EXCEPT !.phase = "ok", !.data = store]
                     ELSE [poll EXCEPT !.phase = "fail"]
  /\ UNCHANGED <<now, store, pushQ, patches, clicks>>
  /\ UNCHANGED clientVars

\* storage.updateOrderStatus(id, "completed")
UpdateOrderStatus(s, id) == MarkCompleted(s, id)

\* PATCH /api/orders/:id with {status: "completed"}: the updated order, or a
\* non-OK answer (404, 400, 500, network error) that leaves the store alone
ServePatch(id) ==
  /\ patches[id].sent > 0
  /\ \E ok \in BOOLEAN :
       IF ok /\ Exists(store, id)
         THEN /\ store' = UpdateOrderStatus(store, id)
              /\ patches' = [patches EXCEPT ![id].sent = @ - 1, ![id].ok = @ + 1]
         ELSE /\ store' = store
              /\ patches' = [patches EXCEPT ![id].sent = @ - 1, ![id].fail = @ + 1]
  /\ UNCHANGED <<now, pushQ, poll, clicks>>
  /\ UNCHANGED clientVars

\* ------------------------------------------------------------------ Dashboard, second screen
\* the ledger record the handlers work on
D2Ledger ==
  [queryData |-> queryData, totalRevenue |-> totalRevenue, newOrderIds |-> newOrderIds,
   resetTimestamp |-> resetTimestamp, uiOrders |-> uiOrders, effects |-> effects]

D2Set(L) ==
  /\ queryData' = L.queryData
  /\ totalRevenue' = L.totalRevenue
  /\ newOrderIds' = L.newOrderIds
  /\ resetTimestamp' = L.resetTimestamp
  /\ uiOrders' = L.uiOrders
  /\ effects' = L.effects

\* queryFn without the `if (!res.ok) throw`: a failed answer is read as an empty list
D2queryFnNoOkCheck(L, res, rts) ==
  LET parsed == IF res.ok THEN res.data ELSE <<>>
      AfterReset(o) == o.created_at > rts
      filteredOrders == IF rts # 0 THEN SelectSeq(parsed, AfterReset) ELSE parsed
      rev == SumTotals(SelectSeq(filteredOrders, IsCompleted))
  IN [L EXCEPT !.totalRevenue = rev, !.uiOrders = filteredOrders,
               !.queryData = parsed, !.effects = {}]

\* queryFn with setTotalRevenue((prev) => prev + revenue)
D2queryFnAccumulate(L, res, rts) ==
  IF ~res.ok
    THEN [L EXCEPT !.effects = {}]
    ELSE LET parsed == res.data
             AfterReset(o) == o.created_at > rts
             filteredOrders == IF rts # 0 THEN SelectSeq(parsed, AfterReset) ELSE parsed
             rev == SumTotals(SelectSeq(filteredOrders, IsCompleted))
         IN [L EXCEPT !.totalRevenue = @ + rev, !.uiOrders = filteredOrders,
                      !.queryData = parsed, !.effects = {}]

\* queryFn after the response arrived; rts is the resetTimestamp its closure holds
D2queryFn(L, res, rts) ==
  IF ~res.ok
    THEN [L EXCEPT !.effects = {}]
    ELSE LET parsed == res.data
             AfterReset(o) == o.created_at > rts
             filteredOrders == IF rts # 0 THEN SelectSeq(parsed, AfterReset) ELSE parsed
             rev == SumTotals(SelectSeq(filteredOrders, IsCompleted))
         IN [L EXCEPT !.totalRevenue = rev, !.uiOrders = filteredOrders,
                      !.queryData = parsed, !.effects = {}]

\* onSuccess that forgets the revenue increment
D2onSuccessNoRevenue(L, updatedOrder) ==
  [L EXCEPT !.queryData = MarkCompleted(@, updatedOrder.id),
            !.effects = {"toast_completed"}]

\* completeOrderMutation.onSuccess
D2onSuccess(L, updatedOrder) ==
  [L EXCEPT !.queryData = MarkCompleted(@, updatedOrder.id),
            !.totalRevenue = @ + updatedOrder.total,
            !.effects = {"toast_completed"}]

\* completeOrderMutation.onError
D2onError(L) == [L EXCEPT !.effects = {"toast_error"}]

\* handleNewOrder
D2handleNewOrder(L, order) ==
  IF L.resetTimestamp # 0 /\ order.created_at <= L.resetTimestamp
    THEN [L EXCEPT !.effects = {}]
    ELSE [L EXCEPT !.queryData = IF Exists(@, order.id) THEN @ ELSE <<order>> \o @,
                   !.uiOrders = <<order>> \o @,
                   !.newOrderIds = @ \cup {order.id},
                   !.effects = {"sound", "toast_new"}]

\* handleReset, confirmed, at time t
D2handleReset(L, t) ==
  [L EXCEPT !.resetTimestamp = t, !.uiOrders = <<>>, !.totalRevenue = 0,
            !.queryData = <<>>, !.effects = {"toast_reset"}]

\* the 5 s timer of the newOrderIds effect
D2highlightTimer(L) == [L EXCEPT !.newOrderIds = {}, !.effects = {}]

\* the fetch starts; queryFn closes over the resetTimestamp of the current render
D2PollStart ==
  /\ poll.phase = "idle"
  /\ poll' = [phase |-> "sent", rt |-> resetTimestamp, data |-> <<>>]
  /\ UNCHANGED <<now, store, pushQ, patches, clicks>>
  /\ UNCHANGED clientVars

D2PollResponse ==
  /\ poll.phase \in {"ok", "fail"}
  /\ D2Set(D2queryFn(D2Ledger, [ok |-> poll.phase = "ok", data |-> poll.data], poll.rt))
  /\ poll' = IdlePoll
  /\ UNCHANGED <<now, store, pushQ, patches, clicks>>
  /\ UNCHANGED <<d1Vars, p7Vars, sideVars>>

\* Complete pressed on a card of pendingOrders: completeOrderMutation.mutate(order.id)
D2Mutate(id) ==
  /\ clicks < MaxClicks
  /\ \E i \in 1..Len(uiOrders) : uiOrders[i].id = id /\ IsPending(uiOrders[i])
  /\ patches' = [patches EXCEPT ![id].sent = @ + 1]
  /\ clicks' = clicks + 1
  /\ UNCHANGED <<now, store, pushQ, poll>>
  /\ UNCHANGED clientVars

D2MutationSuccess(id) ==
  /\ patches[id].ok > 0
  /\ patches' = [patches EXCEPT ![id].ok = @ - 1]
  /\ D2Set(D2onSuccess(D2Ledger, store[id]))
  /\ UNCHANGED <<now, store, pushQ, poll, clicks>>
  /\ UNCHANGED <<d1Vars, p7Vars, sideVars>>

D2MutationError(id) ==
  /\ patches[id].fail > 0
  /\ patches' = [patches EXCEPT ![id].fail = @ - 1]
  /\ D2Set(D2onError(D2Ledger))
  /\ UNCHANGED <<now, store, pushQ, poll, clicks>>
  /\ UNCHANGED <<d1Vars, p7Vars, sideVars>>

\* a NEW_ORDER message is delivered to handleNewOrder
D2NewOrderMessage(id) ==
  /\ id \in pushQ
  /\ pushQ' = pushQ \ {id}
  /\ D2Set(D2handleNewOrder(D2Ledger, NewOrder(id, store[id].created_at)))
  /\ UNCHANGED <<now, store, poll, patches, clicks>>
  /\ UNCHANGED <<d1Vars, p7Vars, sideVars>>

D2Reset ==
  /\ D2Set(D2handleReset(D2Ledger, now))
  /\ UNCHANGED envVars
  /\ UNCHANGED <<d1Vars, p7Vars, sideVars>>

D2HighlightTimeout ==
  /\ newOrderIds # {}
  /\ D2Set(D2highlightTimer(D2Ledger))
  /\ UNCHANGED envVars
  /\ UNCHANGED <<d1Vars, p7Vars, sideVars>>

NextD2 ==
  \/ Tick
  \/ CreateOrder
  \/ PollServe
  \/ \E id \in Ids : ServePatch(id)
  \/ D2PollStart
  \/ D2PollResponse
  \/ \E id \in Ids : D2Mutate(id)
  \/ \E id \in Ids : D2MutationSuccess(id)
  \/ \E id \in Ids : D2MutationError(id)
  \/ \E id \in Ids : D2NewOrderMessage(id)
  \/ D2Reset
  \/ D2HighlightTimeout

SpecD2 == Init /\ [][NextD2]_vars

\* ------------------------------------------------------------------ Dashboard, first screen
D1Ledger ==
  [queryData |-> queryData, totalRevenue |-> totalRevenue, newOrderIds |-> newOrderIds,
   resetTime |-> resetTime, visibleOrderIds |-> visibleOrderIds,
   localStorage |-> localStorage, effects |-> effects]

D1Set(L) ==
  /\ queryData' = L.queryData
  /\ totalRevenue' = L.totalRevenue
  /\ newOrderIds' = L.newOrderIds
  /\ resetTime' = L.resetTime
  /\ visibleOrderIds' = L.visibleOrderIds
  /\ localStorage' = L.localStorage
  /\ effects' = L.effects

\* filteredOrders = allOrders.filter((o) => visibleOrderIds.has(o.id))
D1filteredOrders(L) ==
  LET Visible(o) == o.id \in L.visibleOrderIds IN SelectSeq(L.queryData, Visible)

\* the revenue effect, run after the render a handler causes
D1revenueEffect(L) ==
  [L EXCEPT !.totalRevenue = SumTotals(SelectSeq(D1filteredOrders(L), IsCompleted))]

\* queryFn after the response arrived
D1queryFn(L, res) ==
  IF ~res.ok
    THEN [L EXCEPT !.effects = {}]
    ELSE D1revenueEffect([L EXCEPT !.queryData = res.data, !.effects = {}])

\* completeOrderMutation.onSuccess
D1onSuccess(L, updated) ==
  D1revenueEffect([L EXCEPT !.queryData = MarkCompleted(@, updated.id),
                            !.totalRevenue = @ + updated.total,
                            !.effects = {"toast_completed"}])

\* the mutation has no onError
D1onError(L) == [L EXCEPT !.effects = {}]

\* handleReset, confirmed, at time t
D1handleReset(L, t) ==
  D1revenueEffect([L EXCEPT !.localStorage = [dashboard_reset_time |-> t,
                                              visible_order_ids |-> {}],
                            !.resetTime = t,
                            !.visibleOrderIds = {},
                            !.totalRevenue = 0,
                            !.effects = {"toast_reset"}])

\* handleNewOrder
D1handleNewOrder(L, order) ==
  IF order.created_at < L.resetTime
    THEN [L EXCEPT !.effects = {}]
    ELSE D1revenueEffect(
           [L EXCEPT !.queryData = IF Exists(@, order.id) THEN @ ELSE <<order>> \o @,
                     !.visibleOrderIds = @ \cup {order.id},
                     !.localStorage.visible_order_ids = L.visibleOrderIds \cup {order.id},
                     !.newOrderIds = @ \cup {order.id},
                     !.effects = {"sound", "toast_new"}])

D1Others == <<resetTimestamp, uiOrders, p7Vars, sideVars>>

D1PollStart ==
  /\ poll.phase = "idle"
  /\ poll' = [phase |-> "sent", rt |-> 0, data |-> <<>>]
  /\ UNCHANGED <<now, store, pushQ, patches, clicks>>
  /\ UNCHANGED clientVars

D1PollResponse ==
  /\ poll.phase \in {"ok", "fail"}
  /\ D1Set(D1queryFn(D1Ledger, [ok |-> poll.phase = "ok", data |-> poll.data]))
  /\ poll' = IdlePoll
  /\ UNCHANGED <<now, store, pushQ, patches, clicks>>
  /\ UNCHANGED D1Others

\* Complete pressed on a card of `pending`
D1Mutate(id) ==
  /\ clicks < MaxClicks
  /\ \E i \in 1..Len(D1filteredOrders(D1Ledger)) :
       D1filteredOrders(D1Ledger)[i].id = id /\ IsPending(D1filteredOrders(D1Ledger)[i])
  /\ patches' = [patches EXCEPT ![id].sent = @ + 1]
  /\ clicks' = clicks + 1
  /\ UNCHANGED <<now, store, pushQ, poll>>
  /\ UNCHANGED clientVars

D1MutationSuccess(id) ==
  /\ patches[id].ok > 0
  /\ patches' = [patches EXCEPT ![id].ok = @ - 1]
  /\ D1Set(D1onSuccess(D1Ledger, store[id]))
  /\ UNCHANGED <<now, store, pushQ, poll, clicks>>
  /\ UNCHANGED D1Others

D1MutationError(id) ==
  /\ patches[id].fail > 0
  /\ patches' = [patches EXCEPT ![id].fail = @ - 1]
  /\ D1Set(D1onError(D1Ledger))
  /\ UNCHANGED <<now, store, pushQ, poll, clicks>>
  /\ UNCHANGED D1Others

D1NewOrderMessage(id) ==
  /\ id \in pushQ
  /\ pushQ' = pushQ \ {id}
  /\ D1Set(D1handleNewOrder(D1Ledger, NewOrder(id, store[id].created_at)))
  /\ UNCHANGED <<now, store, poll, patches, clicks>>
  /\ UNCHANGED D1Others

\* a reset that also empties the store (DELETE of every order)
D1ResetDeletingOrders ==
  /\ D1Set(D1handleReset(D1Ledger, now))
  /\ store' = <<>>
  /\ UNCHANGED <<now, pushQ, poll, patches, clicks>>
  /\ UNCHANGED D1Others

D1Reset ==
  /\ D1Set(D1handleReset(D1Ledger, now))
  /\ UNCHANGED envVars
  /\ UNCHANGED D1Others

NextD1 ==
  \/ Tick
  \/ CreateOrder
  \/ PollServe
  \/ \E id \in Ids : ServePatch(id)
  \/ D1PollStart
  \/ D1PollResponse
  \/ \E id \in Ids : D1Mutate(id)
  \/ \E id \in Ids : D1MutationSuccess(id)
  \/ \E id \in Ids : D1MutationError(id)
  \/ \E id \in Ids : D1NewOrderMessage(id)
  \/ D1Reset

SpecD1 == Init /\ [][NextD1]_vars

\* ------------------------------------------------------------------ Dashboard of part_003
P3Ledger ==
  [queryData |-> queryData, totalRevenue |-> totalRevenue, newOrderIds |-> newOrderIds,
   effects |-> effects]

P3Set(L) ==
  /\ queryData' = L.queryData
  /\ totalRevenue' = L.totalRevenue
  /\ newOrderIds' = L.newOrderIds
  /\ effects' = L.effects

\* totalRevenue is computed in the render from the completed orders of the cache
P3render(L) == [L EXCEPT !.totalRevenue = SumTotals(SelectSeq(L.queryData, IsCompleted))]

\* queryFn after the response arrived
P3queryFn(L, res) ==
  IF ~res.ok
    THEN [L EXCEPT !.effects = {}]
    ELSE P3render([L EXCEPT !.queryData = res.data, !.effects = {}])

\* completeOrderMutation.onSuccess
P3onSuccess(L, updatedOrder) ==
  P3render([L EXCEPT !.queryData = MarkCompleted(@, updatedOrder.id),
                     !.effects = {"toast_completed"}])

\* completeOrderMutation.onError
P3onError(L) == [L EXCEPT !.effects = {"toast_error"}]

\* handleNewOrder
P3handleNewOrder(L, order) ==
  P3render([L EXCEPT !.queryData = IF Exists(@, order.id) THEN @ ELSE <<order>> \o @,
                     !.newOrderIds = @ \cup {order.id},
                     !.effects = {"sound", "toast_new"}])

\* the 5 s timer of the newOrderIds effect
P3highlightTimer(L) == [L EXCEPT !.newOrderIds = {}, !.effects = {}]

P3Others == <<resetTimestamp, uiOrders, d1Vars, p7Vars, sideVars>>

P3PollStart ==
  /\ poll.phase = "idle"
  /\ poll' = [phase |-> "sent", rt |-> 0, data |-> <<>>]
  /\ UNCHANGED <<now, store, pushQ, patches, clicks>>
  /\ UNCHANGED clientVars

P3PollResponse ==
  /\ poll.phase \in {"ok", "fail"}
  /\ P3Set(P3queryFn(P3Ledger, [ok |-> poll.phase = "ok", data |-> poll.data]))
  /\ poll' = IdlePoll
  /\ UNCHANGED <<now, store, pushQ, patches, clicks>>
  /\ UNCHANGED P3Others

\* Complete pressed on a card of pendingOrders
P3Mutate(id) ==
  /\ clicks < MaxClicks
  /\ \E i \in 1..Len(queryData) : queryData[i].id = id /\ IsPending(queryData[i])
  /\ patches' = [patches EXCEPT ![id].sent = @ + 1]
  /\ clicks' = clicks + 1
  /\ UNCHANGED <<now, store, pushQ, poll>>
  /\ UNCHANGED clientVars

P3MutationSuccess(id) ==
  /\ patches[id].ok > 0
  /\ patches' = [patches EXCEPT ![id].ok = @ - 1]
  /\ P3Set(P3onSuccess(P3Ledger, store[id]))
  /\ UNCHANGED <<now, store, pushQ, poll, clicks>>
  /\ UNCHANGED P3Others

P3MutationError(id) ==
  /\ patches[id].fail > 0
  /\ patches' = [patches EXCEPT ![id].fail = @ - 1]
  /\ P3Set(P3onError(P3Ledger))
  /\ UNCHANGED <<now, store, pushQ, poll, clicks>>
  /\ UNCHANGED P3Others

P3NewOrderMessage(id) ==
  /\ id \in pushQ
  /\ pushQ' = pushQ \ {id}
  /\ P3Set(P3handleNewOrder(P3Ledger, NewOrder(id, store[id].created_at)))
  /\ UNCHANGED <<now, store, poll, patches, clicks>>
  /\ UNCHANGED P3Others

P3HighlightTimeout ==
  /\ newOrderIds # {}
  /\ P3Set(P3highlightTimer(P3Ledger))
  /\ UNCHANGED envVars
  /\ UNCHANGED P3Others

NextP3 ==
  \/ Tick
  \/ CreateOrder
  \/ PollServe
  \/ \E id \in Ids : ServePatch(id)
  \/ P3PollStart
  \/ P3PollResponse
  \/ \E id \in Ids : P3Mutate(id)
  \/ \E id \in Ids : P3MutationSuccess(id)
  \/ \E id \in Ids : P3MutationError(id)
  \/ \E id \in Ids : P3NewOrderMessage(id)
  \/ P3HighlightTimeout

SpecP3 == Init /\ [][NextP3]_vars

\* ------------------------------------------------------------------ Dashboard of part_007
P7Ledger ==
  [queryData |-> queryData, completedOrders |-> completedOrders, revenue |-> revenue,
   savedCompleted |-> savedCompleted, effects |-> effects]

P7Set(L) ==
  /\ queryData' = L.queryData
  /\ completedOrders' = L.completedOrders
  /\ revenue' = L.revenue
  /\ savedCompleted' = L.savedCompleted
  /\ effects' = L.effects

\* fetchOrders after the response arrived
P7fetchOrders(L, res) ==
  IF ~res.ok
    THEN [L EXCEPT !.effects = {}]
    ELSE [L EXCEPT !.queryData = res.data, !.effects = {}]

\* handleComplete(order) after an OK answer, at time t
P7handleCompleteOk(L, order, t) ==
  LET updatedOrder == [order EXCEPT !.status = "completed"] IN
    [L EXCEPT !.savedCompleted = Append(@, [data |-> updatedOrder, timestamp |-> t]),
              !.completedOrders = Append(@, updatedOrder),
              !.revenue = @ + order.total,
              !.effects = {"sound"}]

\* handleComplete(order) after a non-OK answer: the catch logs the error
P7handleCompleteFail(L) == [L EXCEPT !.effects = {}]

\* handleReset, confirmed
P7handleReset(L) ==
  [L EXCEPT !.savedCompleted = <<>>, !.completedOrders = <<>>, !.revenue = 0,
            !.effects = {"alert_reset"}]

P7Others == <<totalRevenue, newOrderIds, resetTimestamp, uiOrders, d1Vars, sideVars>>

P7PollStart ==
  /\ poll.phase = "idle"
  /\ poll' = [phase |-> "sent", rt |-> 0, data |-> <<>>]
  /\ UNCHANGED <<now, store, pushQ, patches, clicks>>
  /\ UNCHANGED clientVars

P7PollResponse ==
  /\ poll.phase \in {"ok", "fail"}
  /\ P7Set(P7fetchOrders(P7Ledger, [ok |-> poll.phase = "ok", data |-> poll.data]))
  /\ poll' = IdlePoll
  /\ UNCHANGED <<now, store, pushQ, patches, clicks>>
  /\ UNCHANGED P7Others

\* Complete pressed on a card of pendingOrders: handleComplete(order) sends the PATCH
P7Complete(id) ==
  /\ clicks < MaxCompletes
  /\ \E i \in 1..Len(queryData) : queryData[i].id = id /\ ~IsCompleted(queryData[i])
  /\ patches' = [patches EXCEPT ![id].sent = @ + 1]
  /\ clicks' = clicks + 1
  /\ UNCHANGED <<now, store, pushQ, poll>>
  /\ UNCHANGED clientVars

\* the OK answer arrives; the handler ends with refetch(), which starts a new fetch
P7CompleteOk(id) ==
  /\ patches[id].ok > 0
  /\ patches' = [patches EXCEPT ![id].ok = @ - 1]
  /\ P7Set(P7handleCompleteOk(P7Ledger, NewOrder(id, store[id].created_at), now))
  /\ poll' = [phase |-> "sent", rt |-> 0, data |-> <<>>]
  /\ UNCHANGED <<now, store, pushQ, clicks>>
  /\ UNCHANGED P7Others

P7CompleteFail(id) ==
  /\ patches[id].fail > 0
  /\ patches' = [patches EXCEPT ![id].fail = @ - 1]
  /\ P7Set(P7handleCompleteFail(P7Ledger))
  /\ UNCHANGED <<now, store, pushQ, poll, clicks>>
  /\ UNCHANGED P7Others

P7Reset ==
  /\ P7Set(P7handleReset(P7Ledger))
  /\ UNCHANGED envVars
  /\ UNCHANGED P7Others

NextP7 ==
  \/ Tick
  \/ CreateOrder
  \/ PollServe
  \/ \E id \in Ids : ServePatch(id)
  \/ P7PollStart
  \/ P7PollResponse
  \/ \E id \in Ids : P7Complete(id)
  \/ \E id \in Ids : P7CompleteOk(id)
  \/ \E id \in Ids : P7CompleteFail(id)
  \/ P7Reset

SpecP7 == Init /\ [][NextP7]_vars

\* ------------------------------------------------------------------ second screen, page reload
\* the page is loaded again: every useState starts from its initial value, the
\* query cache is new, and what was in flight to the old page is dropped
D2Reload ==
  /\ D2Set([queryData |-> <<>>, totalRevenue |-> 0, newOrderIds |-> {},
            resetTimestamp |-> 0, uiOrders |-> <<>>, effects |-> {}])
  /\ poll' = IdlePoll
  /\ pushQ' = {}
  /\ patches' = [id \in Ids |-> NoPatch]
  /\ UNCHANGED <<now, store, clicks>>
  /\ UNCHANGED <<d1Vars, p7Vars, sideVars>>

NextD2Reload ==
  \/ NextD2
  \/ D2Reload

SpecD2Reload == Init /\ [][NextD2Reload]_vars

\* ------------------------------------------------------------------ second screen, highlight timer
\* setTimeout(() => setNewOrderIds(new Set()), 5000)
HighlightDelay == 5000

\* the newOrderIds effect after a render in which setNewOrderIds put a new Set:
\* the cleanup clears the pending timeout, then a timeout is set if the set is not empty
D2highlightEffect(ids, t) == IF ids # {} THEN t + HighlightDelay ELSE 0

timedOthers ==
  <<poll, patches, clicks, resetTime, visibleOrderIds, localStorage, completedOrders,
    revenue, savedCompleted, wsQ, rawOrders, jsRevenue, lateVars>>

\* a second passes; a timeout that is due fires before the clock moves on
TimedTick ==
  /\ now < MaxClock
  /\ timer = 0 \/ now + 1000 <= timer
  /\ now' = now + 1000
  /\ UNCHANGED <<store, pushQ, queryData, totalRevenue, newOrderIds, resetTimestamp,
                 uiOrders, timer, insertedAt, effects>>
  /\ UNCHANGED timedOthers

\* POST /api/orders: createOrder, then broadcast NEW_ORDER
TimedCreateOrder ==
  /\ Len(store) < MaxPushOrders
  /\ \E open \in BOOLEAN :
       LET id == Len(store) + 1 IN
         /\ store' = Append(store, NewOrder(id, now))
         /\ pushQ' = Broadcast(pushQ, id, open)
  /\ UNCHANGED <<now, queryData, totalRevenue, newOrderIds, resetTimestamp, uiOrders,
                 timer, insertedAt, effects>>
  /\ UNCHANGED timedOthers

\* a NEW_ORDER message is delivered to handleNewOrder; when the handler went past
\* its early return, setNewOrderIds ran and the effect restarts the timeout
D2TimedNewOrderMessage(id) ==
  /\ id \in pushQ
  /\ pushQ' = pushQ \ {id}
  /\ LET L == D2handleNewOrder(D2Ledger, NewOrder(id, store[id].created_at))
         ignored == L.effects = {}
     IN /\ D2Set(L)
        /\ timer' = IF ignored THEN timer ELSE D2highlightEffect(L.newOrderIds, now)
        /\ insertedAt' = IF ignored THEN insertedAt ELSE [insertedAt EXCEPT ![id] = now]
  /\ UNCHANGED <<now, store>>
  /\ UNCHANGED timedOthers

\* the timeout fires: setNewOrderIds(new Set()), and the effect sets no new timeout
D2TimerFires ==
  /\ timer # 0
  /\ now >= timer
  /\ LET L == D2highlightTimer(D2Ledger)
     IN /\ D2Set(L)
        /\ timer' = D2highlightEffect(L.newOrderIds, now)
  /\ UNCHANGED <<now, store, pushQ, insertedAt>>
  /\ UNCHANGED timedOthers

NextD2Timed ==
  \/ TimedTick
  \/ TimedCreateOrder
  \/ \E id \in PushIds : D2TimedNewOrderMessage(id)
  \/ D2TimerFires

SpecD2Timed == Init /\ [][NextD2Timed]_vars

\* ------------------------------------------------------------------ revenue arithmetic
\* the values the field `total` of a parsed order can hold: absent, a number, or a
\* string that is empty, a decimal number, a number followed by other text, or
\* text that does not start with a number
RawTotals ==
  {[kind |-> "undefined", val |-> 0], [kind |-> "empty", val |-> 0],
   [kind |-> "number", val |-> 0], [kind |-> "number", val |-> 5],
   [kind |-> "numstr", val |-> 7], [kind |-> "prefixstr", val |-> 3],
   [kind |-> "text", val |-> 0]}

RawOrderValues ==
  [id : 1..MaxRawOrders, status : {"pending", "completed"}, total : RawTotals]

\* the lists a poll can return, order i at position i
RawSnapshots ==
  {snap \in UNION {[1..n -> RawOrderValues] : n \in 0..MaxRawOrders} :
     \A i \in 1..Len(snap) : snap[i].id = i}

\* x || 0
OrZero(x) ==
  IF x.kind \in {"undefined", "empty"} \/ (x.kind = "number" /\ x.val = 0)
    THEN [kind |-> "number", val |-> 0]
    ELSE x

\* parseFloat(x)
ParseFloat(x) ==
  IF x.kind \in {"number", "numstr", "prefixstr"} THEN Num(x.val) ELSE NaN

\* a + b on JavaScript numbers
JsAdd(a, b) == IF a.nan \/ b.nan THEN NaN ELSE Num(a.val + b.val)

RECURSIVE JsSumTotals(_)
\* .reduce((sum, o) => sum + parseFloat(o.total || 0), 0)
JsSumTotals(s) ==
  IF s = <<>> THEN Num(0)
  ELSE JsAdd(JsSumTotals(SubSeq(s, 1, Len(s) - 1)), ParseFloat(OrZero(s[Len(s)].total)))

\* queryFn: revenue of the completed orders of the list
D2revenue(orders) == JsSumTotals(SelectSeq(orders, IsCompleted))

\* onSuccess: prev + (isNaN(added) ? 0 : added), added = parseFloat(updatedOrder.total || 0)
D2revenueAdded(prev, updatedOrder) ==
  LET added == ParseFloat(OrZero(updatedOrder.total))
  IN JsAdd(prev, IF added.nan THEN Num(0) ELSE added)

revenueOthers ==
  <<now, store, pushQ, poll, patches, queryData, totalRevenue, newOrderIds,
    resetTimestamp, uiOrders, resetTime, visibleOrderIds, localStorage, completedOrders,
    revenue, savedCompleted, wsQ, timer, insertedAt, lateVars, effects>>

\* a poll answer is parsed and queryFn calls setTotalRevenue(revenue)
RevenueFromSnapshot ==
  /\ \E snap \in RawSnapshots :
       /\ rawOrders' = snap
       /\ jsRevenue' = D2revenue(snap)
  /\ UNCHANGED clicks
  /\ UNCHANGED revenueOthers

\* the PATCH for order i is confirmed and onSuccess adds its amount
RevenueOnSuccess(i) ==
  /\ clicks < MaxClicks
  /\ i \in 1..Len(rawOrders)
  /\ clicks' = clicks + 1
  /\ jsRevenue' = D2revenueAdded(jsRevenue, rawOrders[i])
  /\ UNCHANGED rawOrders
  /\ UNCHANGED revenueOthers

NextRevenue ==
  \/ RevenueFromSnapshot
  \/ \E i \in 1..MaxRawOrders : RevenueOnSuccess(i)

SpecRevenue == Init /\ [][NextRevenue]_vars

\* ------------------------------------------------------------------ first screen, polling only
\* POST /api/orders while no socket is OPEN: nothing reaches the dashboard
CreateOrderOffline == CreateOrder /\ pushQ' = pushQ

\* GET /api/orders answered with the list
PollServeOk == PollServe /\ poll'.phase = "ok"

NextD1Polling ==
  \/ Tick
  \/ CreateOrderOffline
  \/ PollServe
  \/ D1PollStart
  \/ D1PollResponse
  \/ D1Reset

\* refetchInterval starts a fetch again and again, the server answers, the answer
\* is handled; an answer with the list comes again and again
SpecD1Polling ==
  /\ Init
  /\ [][NextD1Polling]_vars
  /\ WF_vars(D1PollStart)
  /\ WF_vars(PollServe)
  /\ SF_vars(PollServeOk)
  /\ WF_vars(D1PollResponse)

\* ------------------------------------------------------------------ push channel
\* broadcast(data): client.send for a client whose socket is OPEN
wsBroadcast(q, data, open) == IF open THEN Append(q, data) ELSE q

\* storage.updateOrderStatus(id, status)
SetStatus(s, id, status) ==
  [i \in 1..Len(s) |-> IF s[i].id = id THEN [s[i] EXCEPT !.status = status] ELSE s[i]]

pushOthers ==
  <<queryData, totalRevenue, newOrderIds, resetTimestamp, uiOrders, resetTime,
    visibleOrderIds, localStorage, completedOrders, revenue, savedCompleted, timer,
    insertedAt, rawOrders, jsRevenue, lateVars, effects>>

\* POST /api/orders: createOrder, broadcast({type: 'NEW_ORDER', order})
PostOrder ==
  /\ Len(store) < MaxPushOrders
  /\ Len(wsQ) < MaxInFlight
  /\ \E open \in BOOLEAN :
       LET order == NewOrder(Len(store) + 1, now) IN
         /\ store' = Append(store, order)
         /\ wsQ' = wsBroadcast(wsQ, [type |-> "NEW_ORDER", order |-> order], open)
  /\ UNCHANGED <<now, pushQ, poll, patches, clicks>>
  /\ UNCHANGED pushOthers

\* PATCH /api/orders/:id/status sent by some client with a valid status and the id
\* of a stored order: updateOrderStatus, broadcast({type: 'ORDER_UPDATED', order})
PatchStatus(id, status) ==
  /\ Exists(store, id)
  /\ Len(wsQ) < MaxInFlight
  /\ \E open \in BOOLEAN :
       LET updated == SetStatus(store, id, status) IN
         /\ store' = updated
         /\ wsQ' = wsBroadcast(wsQ, [type |-> "ORDER_UPDATED", order |-> updated[id]], open)
  /\ UNCHANGED <<now, pushQ, poll, patches, clicks>>
  /\ UNCHANGED pushOthers

\* the props both screens pass to useWebSocket: {url, onMessage}
DashboardProps == [url |-> "BACKEND_URL", onMessage |-> "onMessage"]

\* useWebSocket, ws.onmessage: the callback it calls, taken from the props it
\* destructures ({onNewOrder, onOrderUpdated}), and the argument
useWebSocketOnMessage(props, message) ==
  IF message.type = "NEW_ORDER" /\ "onNewOrder" \in DOMAIN props
    THEN [fn |-> props.onNewOrder, arg |-> message.order]
    ELSE IF message.type = "ORDER_UPDATED" /\ "onOrderUpdated" \in DOMAIN props
      THEN [fn |-> props.onOrderUpdated, arg |-> message.order]
      ELSE [fn |-> "none", arg |-> message.order]

\* second screen, onMessage: (data) => { if (data.type === "new_order") handleNewOrder(data.order) }
D2onMessage(L, data) ==
  IF data.type = "new_order" THEN D2handleNewOrder(L, data.order) ELSE L

\* the second screen's callbacks by the name the props give them
D2Call(L, call) == IF call.fn = "onMessage" THEN D2onMessage(L, call.arg) ELSE L

\* the socket hands the oldest message to ws.onmessage (component mounted)
D2SocketMessage ==
  /\ wsQ # <<>>
  /\ wsQ' = Tail(wsQ)
  /\ D2Set(D2Call(D2Ledger, useWebSocketOnMessage(DashboardProps, Head(wsQ))))
  /\ UNCHANGED <<now, store, pushQ, poll, patches, clicks>>
  /\ UNCHANGED <<d1Vars, p7Vars, timer, insertedAt, rawOrders, jsRevenue, lateVars>>

NextPushD2 ==
  \/ Tick
  \/ PostOrder
  \/ \E id \in PushIds, status \in {"pending", "completed"} : PatchStatus(id, status)
  \/ PollServe
  \/ D2PollStart
  \/ D2PollResponse
  \/ D2SocketMessage
  \/ D2Reset

SpecPushD2 == Init /\ [][NextPushD2]_vars

\* first screen, onMessage
D1onMessage(L, data) ==
  IF data.type = "new_order" THEN D1handleNewOrder(L, data.order) ELSE L

D1Call(L, call) == IF call.fn = "onMessage" THEN D1onMessage(L, call.arg) ELSE L

D1SocketMessage ==
  /\ wsQ # <<>>
  /\ wsQ' = Tail(wsQ)
  /\ D1Set(D1Call(D1Ledger, useWebSocketOnMessage(DashboardProps, Head(wsQ))))
  /\ UNCHANGED <<now, store, pushQ, poll, patches, clicks>>
  /\ UNCHANGED <<resetTimestamp, uiOrders, p7Vars, timer, insertedAt, rawOrders, jsRevenue, lateVars>>

NextPushD1 ==
  \/ Tick
  \/ PostOrder
  \/ PollServe
  \/ D1PollStart
  \/ D1PollResponse
  \/ D1SocketMessage
  \/ D1Reset

SpecPushD1 == Init /\ [][NextPushD1]_vars

\* ------------------------------------------------------------------ server routes
\* ids a request can name: those the store can hold
ServerIds == 1..MaxRequests
\* the `status` of a PATCH body: the two valid ones, another string, or none
PatchStatuses == {"pending", "completed", "cancelled", "missing"}

\* storage.createOrder(data): the store with one more order
StorageCreateOrder(st, t) == Append(st, NewOrder(Len(st) + 1, t))

\* storage.updateOrderStatus(id, status): the store with the order's status set;
\* the store as it is when there is no such order (the call returns undefined)
StorageUpdateOrderStatus(st, id, status) ==
  IF Exists(st, id) THEN SetStatus(st, id, status) ELSE st

\* broadcast(data) over wss.clients: client.send for every client that is OPEN
broadcastAll(cl, data) ==
  [c \in DOMAIN cl |-> IF cl[c].open THEN [cl[c] EXCEPT !.inbox = Append(@, data)] ELSE cl[c]]

\* a POST handler that sends to every client, whatever its readyState
PostOrdersRouteSendAll(st, cl, valid, t) ==
  IF ~valid
    THEN [store |-> st, clients |-> cl, code |-> 400]
    ELSE LET created == StorageCreateOrder(st, t)
             data == [type |-> "NEW_ORDER", order |-> created[Len(created)]]
         IN [store |-> created,
             clients |-> [c \in DOMAIN cl |-> [cl[c] EXCEPT !.inbox = Append(@, data)]],
             code |-> 201]

\* POST /api/orders: insertOrderSchema.parse throws ZodError on an invalid body
PostOrdersRoute(st, cl, valid, t) ==
  IF ~valid
    THEN [store |-> st, clients |-> cl, code |-> 400]
    ELSE LET created == StorageCreateOrder(st, t)
             order == created[Len(created)]
         IN [store |-> created,
             clients |-> broadcastAll(cl, [type |-> "NEW_ORDER", order |-> order]),
             code |-> 201]

\* a PATCH handler that calls updateOrderStatus before it looks at the status
PatchStatusRouteUpdateFirst(st, cl, id, status) ==
  LET updated == StorageUpdateOrderStatus(st, id, status) IN
    IF status \notin {"pending", "completed"}
      THEN [store |-> updated, clients |-> cl, code |-> 400]
      ELSE IF ~Exists(st, id)
        THEN [store |-> st, clients |-> cl, code |-> 404]
        ELSE [store |-> updated,
              clients |-> broadcastAll(cl, [type |-> "ORDER_UPDATED", order |-> updated[id]]),
              code |-> 200]

\* PATCH /api/orders/:id/status
PatchStatusRoute(st, cl, id, status) ==
  IF status \notin {"pending", "completed"}
    THEN [store |-> st, clients |-> cl, code |-> 400]
    ELSE IF ~Exists(st, id)
      THEN [store |-> st, clients |-> cl, code |-> 404]
      ELSE LET updated == StorageUpdateOrderStatus(st, id, status)
           IN [store |-> updated,
               clients |-> broadcastAll(cl, [type |-> "ORDER_UPDATED", order |-> updated[id]]),
               code |-> 200]

\* wss.on('connection'): a client's socket is OPEN
ClientConnects(c) ==
  /\ ~clients[c].open
  /\ clients' = [clients EXCEPT ![c].open = TRUE]
  /\ UNCHANGED <<store, response, requests>>
  /\ UNCHANGED <<screenVars, hook, moreVars>>

\* ws.on('close')
ClientCloses(c) ==
  /\ clients[c].open
  /\ clients' = [clients EXCEPT ![c].open = FALSE]
  /\ UNCHANGED <<store, response, requests>>
  /\ UNCHANGED <<screenVars, hook, moreVars>>

PostOrders ==
  /\ requests < MaxRequests
  /\ \E valid \in BOOLEAN :
       LET r == PostOrdersRoute(store, clients, valid, now) IN
         /\ store' = r.store
         /\ clients' = r.clients
         /\ response' = [route |-> "POST", code |-> r.code, valid |-> valid]
  /\ requests' = requests + 1
  /\ UNCHANGED <<screenVars, hook, moreVars>>

PatchOrderStatus ==
  /\ requests < MaxRequests
  /\ \E id \in ServerIds, status \in PatchStatuses :
       LET r == PatchStatusRoute(store, clients, id, status) IN
         /\ store' = r.store
         /\ clients' = r.clients
         /\ response' = [route |-> "PATCH", code |-> r.code, id |-> id, status |-> status]
  /\ requests' = requests + 1
  /\ UNCHANGED <<screenVars, hook, moreVars>>

NextServer ==
  \/ \E c \in Clients : ClientConnects(c)
  \/ \E c \in Clients : ClientCloses(c)
  \/ PostOrders
  \/ PatchOrderStatus

SpecServer == Init /\ [][NextServer]_vars

\* ------------------------------------------------------------------ useWebSocket
\* setTimeout(() => connectWithUnmountGuard(), 3000)
ReconnectDelay == 3000

\* the props of a component that passes both callbacks
HookProps == [onNewOrder |-> "onNewOrder", onOrderUpdated |-> "onOrderUpdated"]

\* reconnectTimeoutRef.current = setTimeout(..., 3000) by effect instance e at time t
HookSetTimeout(H, e, t) ==
  [H EXCEPT !.timers = Append(@, [owner |-> e, due |-> t + ReconnectDelay, state |-> "pending"]),
            !.reconnectTimeoutRef = Len(H.timers) + 1]

\* connectWithUnmountGuard of effect instance e; `throws`: new WebSocket throws
connectWithUnmountGuard(H, e, throws, t) ==
  IF H.isUnmounted[e]
    THEN H
    ELSE IF throws
      THEN HookSetTimeout([H EXCEPT !.attempts = @ + 1], e, t)
      ELSE [H EXCEPT !.attempts = @ + 1,
                     !.sockets = Append(@, [owner |-> e, state |-> "CONNECTING"]),
                     !.wsRef = Len(H.sockets) + 1]

\* ws.onclose that sets no timeout
HookOnCloseNoReconnect(H, i, t) ==
  [H EXCEPT !.sockets[i].state = "CLOSED"]

\* ws.onclose without the isUnmounted test
HookOnCloseNoGuard(H, i, t) ==
  HookSetTimeout([H EXCEPT !.sockets[i].state = "CLOSED"], H.sockets[i].owner, t)

\* socket i is closed and its ws.onclose runs
HookOnClose(H, i, t) ==
  LET e == H.sockets[i].owner
      closed == [H EXCEPT !.sockets[i].state = "CLOSED"]
  IN IF ~H.isUnmounted[e] THEN HookSetTimeout(closed, e, t) ELSE closed

\* ws.onmessage of socket i
HookOnMessage(H, i, message) ==
  LET e == H.sockets[i].owner
      call == useWebSocketOnMessage(HookProps, message)
  IN IF H.isUnmounted[e] \/ call.fn = "none"
       THEN [H EXCEPT !.received = @ + 1]
       ELSE [H EXCEPT !.received = @ + 1, !.called[e] = @ + 1]

\* the effect's cleanup for effect instance e
HookCleanup(H, e) ==
  LET r == H.reconnectTimeoutRef
      w == H.wsRef
      flagged == [H EXCEPT !.isUnmounted[e] = TRUE]
      cleared == IF r # 0 /\ flagged.timers[r].state = "pending"
                   THEN [flagged EXCEPT !.timers[r].state = "cleared"]
                   ELSE flagged
  IN IF w # 0 /\ cleared.sockets[w].state \in {"CONNECTING", "OPEN"}
       THEN [cleared EXCEPT !.sockets[w].state = "CLOSING"]
       ELSE cleared

\* the effect runs: a new instance with isUnmounted = false calls connectWithUnmountGuard
HookEffect(H, throws, t) ==
  LET e == H.effect + 1
      started == [H EXCEPT !.effect = e, !.mounted = TRUE,
                           !.isUnmounted = Append(@, FALSE), !.called = Append(@, 0)]
  IN connectWithUnmountGuard(started, e, throws, t)

hookOthers == <<store, screenVarsNoClock, serverVars, moreVars>>

HookMount ==
  /\ hook.effect = 0
  /\ \E throws \in BOOLEAN : hook' = HookEffect(hook, throws, now)
  /\ UNCHANGED <<now, hookOthers>>

\* onNewOrder or onOrderUpdated changed: cleanup, then the effect runs again
HookDepsChange ==
  /\ hook.mounted
  /\ hook.effect < MaxEffects
  /\ hook.attempts < MaxAttempts
  /\ \E throws \in BOOLEAN :
       hook' = HookEffect(HookCleanup(hook, hook.effect), throws, now)
  /\ UNCHANGED <<now, hookOthers>>

HookUnmount ==
  /\ hook.mounted
  /\ hook' = [HookCleanup(hook, hook.effect) EXCEPT !.mounted = FALSE]
  /\ UNCHANGED <<now, hookOthers>>

SocketOpens(i) ==
  /\ i \in 1..Len(hook.sockets)
  /\ hook.sockets[i].state = "CONNECTING"
  /\ hook' = [hook EXCEPT !.sockets[i].state = "OPEN"]
  /\ UNCHANGED <<now, hookOthers>>

\* the connection fails or ends, or the close the cleanup asked for completes
SocketCloses(i) ==
  /\ i \in 1..Len(hook.sockets)
  /\ hook.sockets[i].state \in {"CONNECTING", "OPEN", "CLOSING"}
  /\ hook' = HookOnClose(hook, i, now)
  /\ UNCHANGED <<now, hookOthers>>

\* a message event of socket i is dispatched (also one queued before close())
SocketReceives(i) ==
  /\ i \in 1..Len(hook.sockets)
  /\ hook.sockets[i].state \in {"OPEN", "CLOSING"}
  /\ hook.received < MaxHookMessages
  /\ \E type \in {"NEW_ORDER", "ORDER_UPDATED", "PING"} :
       hook' = HookOnMessage(hook, i, [type |-> type, order |-> NewOrder(1, now)])
  /\ UNCHANGED <<now, hookOthers>>

ReconnectTimerFires(k) ==
  /\ k \in 1..Len(hook.timers)
  /\ hook.timers[k].state = "pending"
  /\ now >= hook.timers[k].due
  /\ hook.attempts < MaxAttempts
  /\ \E throws \in BOOLEAN :
       hook' = connectWithUnmountGuard([hook EXCEPT !.timers[k].state = "fired"],
                                       hook.timers[k].owner, throws, now)
  /\ UNCHANGED <<now, hookOthers>>

\* a second passes; a timeout that is due fires before the clock moves on
HookTick ==
  /\ now < MaxHookClock
  /\ \A k \in 1..Len(hook.timers) :
       hook.timers[k].state = "pending" => now + 1000 <= hook.timers[k].due
  /\ now' = now + 1000
  /\ UNCHANGED <<hook, hookOthers>>

NextHook ==
  \/ HookMount
  \/ HookDepsChange
  \/ HookUnmount
  \/ \E i \in 1..MaxAttempts : SocketOpens(i)
  \/ \E i \in 1..MaxAttempts : SocketCloses(i)
  \/ \E i \in 1..MaxAttempts : SocketReceives(i)
  \/ \E k \in 1..MaxAttempts : ReconnectTimerFires(k)
  \/ HookTick

SpecHook == Init /\ [][NextHook]_vars

\* ------------------------------------------------------------------ second screen, several orders
\* the socket delivers in the order of sending: the oldest NEW_ORDER first
D2OldestOrderMessage ==
  \E id \in PushIds :
    /\ \A other \in pushQ : id <= other
    /\ D2NewOrderMessage(id)

\* GET /api/orders answered with storage.getOrders(): oldest first or newest first
ListServe ==
  /\ poll.phase = "sent"
  /\ \E newestFirst \in BOOLEAN :
       poll' = [poll EXCEPT !.phase = "ok",
                            !.data = IF newestFirst
                                       THEN [i \in 1..Len(store) |-> store[Len(store) + 1 - i]]
                                       ELSE store]
  /\ UNCHANGED <<now, store, pushQ, patches, clicks>>
  /\ UNCHANGED clientVars

NextD2List ==
  \/ Tick
  \/ TimedCreateOrder
  \/ ListServe
  \/ D2PollStart
  \/ D2PollResponse
  \/ D2OldestOrderMessage

SpecD2List == Init /\ [][NextD2List]_vars

\* ------------------------------------------------------------------ OrderCard
\* JavaScript values an item or one of its fields can hold; a string is the
\* sequence of its characters
JsUndefined == [kind |-> "undefined", val |-> 0, chars |-> <<>>]
JsNull == [kind |-> "null", val |-> 0, chars |-> <<>>]
JsTrue == [kind |-> "boolean", val |-> 1, chars |-> <<>>]
JsNumber(n) == [kind |-> "number", val |-> n, chars |-> <<>>]
JsString(cs) == [kind |-> "string", val |-> 0, chars |-> cs]

ItemChars == {"0", "2", "x", " ", "P", "\n"}
ItemStrings == UNION {[1..n -> ItemChars] : n \in 0..MaxItemChars}
MargheritaItem ==
  <<"2", "x", " ", "M", "a", "r", "g", "h", "e", "r", "i", "t", "a", " ", "P", "i", "z", "z", "a">>
Salad == <<"S", "a", "l", "a", "d">>
Unknown == <<"U", "n", "k", "n", "o", "w", "n">>
FieldValues ==
  {JsUndefined, JsNull, JsNumber(0 - 1), JsNumber(0), JsNumber(2), JsString(<<>>),
   JsString(<<"P">>), JsString(Salad)}
ItemObjects ==
  [kind : {"object"}, name : FieldValues, quantity : FieldValues, qty : FieldValues,
   price : FieldValues]

IsDigit(c) == c \in {"0", "1", "2", "3", "4", "5", "6", "7", "8", "9"}
IsSpace(c) == c \in {" ", "\t", "\n"}
IsLineEnd(c) == c = "\n"
DigitValue(c) ==
  CASE c = "0" -> 0 [] c = "1" -> 1 [] c = "2" -> 2 [] c = "3" -> 3 [] c = "4" -> 4
    [] c = "5" -> 5 [] c = "6" -> 6 [] c = "7" -> 7 [] c = "8" -> 8 [] c = "9" -> 9

RECURSIVE ParseInt(_)
\* parseInt(match[1]) on a string of decimal digits
ParseInt(cs) ==
  IF cs = <<>> THEN 0
  ELSE 10 * ParseInt(SubSeq(cs, 1, Len(cs) - 1)) + DigitValue(cs[Len(cs)])

\* item.match(/^(\d+)x\s+(.+)$/): the digits, an x, the longest run of white
\* space that leaves a name of at least one character without a line end
ItemMatch(cs) ==
  LET d == CHOOSE n \in 0..Len(cs) :
             /\ \A i \in 1..n : IsDigit(cs[i])
             /\ n = Len(cs) \/ ~IsDigit(cs[n + 1])
      starts == {k \in (d + 3)..Len(cs) :
                   /\ \A i \in (d + 2)..(k - 1) : IsSpace(cs[i])
                   /\ \A i \in k..Len(cs) : ~IsLineEnd(cs[i])}
      found == d >= 1 /\ d + 1 <= Len(cs) /\ cs[d + 1] = "x" /\ starts # {}
      k == CHOOSE n \in starts : \A other \in starts : other <= n
  IN IF found
       THEN [found |-> TRUE, quantity |-> SubSeq(cs, 1, d), name |-> SubSeq(cs, k, Len(cs))]
       ELSE [found |-> FALSE, quantity |-> <<>>, name |-> <<>>]

\* a || b
JsOr(a, b) ==
  IF \/ a.kind \in {"undefined", "null"}
     \/ a.kind = "number" /\ a.val = 0
     \/ a.kind = "string" /\ a.chars = <<>>
    THEN b
    ELSE a

\* the callback of items.map
SafeItem(item) ==
  IF item.kind = "string"
    THEN LET match == ItemMatch(item.chars)
         IN IF match.found
              THEN [quantity |-> JsNumber(ParseInt(match.quantity)),
                    name |-> JsString(match.name), price |-> JsNumber(0)]
              ELSE [quantity |-> JsNumber(1), name |-> item, price |-> JsNumber(0)]
  ELSE IF item.kind = "object"
    THEN [name |-> JsOr(item.name, JsString(Unknown)),
          quantity |-> JsOr(JsOr(item.quantity, item.qty), JsNumber(1)),
          price |-> JsOr(item.price, JsNumber(0))]
  ELSE [name |-> JsString(Unknown), quantity |-> JsNumber(1), price |-> JsNumber(0)]

\* Array.isArray(items) ? items.map(...) : []
SafeItems(items) ==
  IF items.kind = "array" THEN [i \in 1..Len(items.elems) |-> SafeItem(items.elems[i])] ELSE <<>>

cardOthers == <<now, store, screenVarsNoClock, serverVars, hook, stats, baseline, simulator>>

\* what the component renders of the order's items (one render of one order)
OrderCard(items) == [items |-> items, safeItems |-> SafeItems(items), rendered |-> TRUE]

\* an order whose items are strings
OrderCardStrings ==
  /\ ~card.rendered
  /\ \E cs \in ItemStrings \cup {MargheritaItem} :
       card' = OrderCard([kind |-> "array", elems |-> <<JsString(cs)>>])
  /\ UNCHANGED cardOthers

\* an order whose items are objects
OrderCardObjects ==
  /\ ~card.rendered
  /\ \E item \in ItemObjects : card' = OrderCard([kind |-> "array", elems |-> <<item>>])
  /\ UNCHANGED cardOthers

\* an order whose items are neither strings nor objects, or whose items is no array
OrderCardOthers ==
  /\ ~card.rendered
  /\ \E items \in {[kind |-> "array", elems |-> <<item>>] :
                      item \in {JsUndefined, JsNull, JsTrue, JsNumber(2)}}
                   \cup {JsUndefined, JsNull, JsString(MargheritaItem)} :
       card' = OrderCard(items)
  /\ UNCHANGED cardOthers

NextOrderCard ==
  \/ OrderCardStrings
  \/ OrderCardObjects
  \/ OrderCardOthers

SpecOrderCard == Init /\ [][NextOrderCard]_vars

\* ------------------------------------------------------------------ statistics cards
\* amounts are numbers of cents: parseFloat("45.50") is 4550
StatAmounts == {4550, 2875, 3200}
StatOrders ==
  {s \in UNION {[1..n -> [id : 1..MaxStatOrders, status : {"pending", "completed"},
                          total : StatAmounts]] : n \in 0..MaxStatOrders} :
     \A i \in 1..Len(s) : s[i].id = i}

\* (a / n).toFixed(2) of a non-negative amount, in cents: halves round up
ToFixed2Truncating(a, n) == a \div n
ToFixed2(a, n) == (2 * a + n) \div (2 * n)

\* the props given to RevenueCard; "0.00" is 0 cents
RevenueCardProps(totalRev, completedCount) ==
  [todayRevenue |-> ToFixed2(totalRev, 1),
   completedOrders |-> completedCount,
   averageOrderValue |-> IF completedCount > 0 THEN ToFixed2(totalRev, completedCount) ELSE 0]

\* part_005: completed orders after the last reset and their revenue
P5completedOrders(orders, lastCompletedResetId) ==
  LET Counted(o) == o.status = "completed" /\ o.id > lastCompletedResetId
  IN SelectSeq(orders, Counted)

P5Stats(orders, lastCompletedResetId) ==
  LET completed == P5completedOrders(orders, lastCompletedResetId)
  IN RevenueCardProps(SumTotals(completed), Len(completed))

\* first screen: totalRevenue as the revenue effect set it, avgValue over completed
D1Stats(filteredOrders) ==
  LET completed == SelectSeq(filteredOrders, IsCompleted)
  IN RevenueCardProps(SumTotals(completed), Len(completed))

statsOthers == <<now, store, screenVarsNoClock, serverVars, hook, card, baseline, simulator>>

P5Render ==
  /\ stats.screen = "none"
  /\ \E orders \in StatOrders, lastCompletedResetId \in 0..MaxStatOrders :
       stats' = [screen |-> "part_005",
                 completed |-> P5completedOrders(orders, lastCompletedResetId),
                 shown |-> P5Stats(orders, lastCompletedResetId)]
  /\ UNCHANGED statsOthers

D1Render ==
  /\ stats.screen = "none"
  /\ \E filteredOrders \in StatOrders :
       stats' = [screen |-> "first",
                 completed |-> SelectSeq(filteredOrders, IsCompleted),
                 shown |-> D1Stats(filteredOrders)]
  /\ UNCHANGED statsOthers

NextStats ==
  \/ P5Render
  \/ D1Render

SpecStats == Init /\ [][NextStats]_vars

\* ------------------------------------------------------------------ baseline-counter screens
\* part_006, part_008 and part_009: Reset stores the counters reached so far and
\* the cards show the difference. The record B holds one screen's state:
\* orders is the data of the query shown, localStorage its three keys as numbers
\* (a key never written reads as 0).
BaselineScreens == {"part_006", "part_008", "part_009"}

BcompletedOrders(B) == SelectSeq(B.orders, IsCompleted)

\* totalRevenue: computed from the list at render (part_006), or the state that
\* queryFn sets and onSuccess adds to (part_008, part_009)
BtotalRevenue(B) ==
  IF B.screen = "part_006" THEN SumTotals(BcompletedOrders(B)) ELSE B.totalRevenue

\* displayedRevenue / visibleRevenue, as given to toFixed(2)
BdisplayedRevenue(B) == BtotalRevenue(B) - B.baseRevenue

\* the completed count given to RevenueCard: Math.max(displayedCompleted, 0)
BdisplayedCompleted(B) ==
  LET displayedCompleted == Len(BcompletedOrders(B)) - B.baseCompleted
  IN IF displayedCompleted < 0 THEN 0 ELSE displayedCompleted

\* the query key of part_009 carries localStorage last_completed_id, read at render
BqueryKey(B) == IF B.screen = "part_009" THEN B.localStorage.last_completed_id ELSE 0

\* queryFn after the response arrived: part_008 and part_009 call
\* setTotalRevenue(revenue) before the data reaches the cache
BqueryFn(B, res) ==
  IF ~res.ok
    THEN [B EXCEPT !.isLoading = FALSE]
    ELSE [B EXCEPT !.orders = res.data,
                   !.totalRevenue = IF B.screen = "part_006" THEN @
                                    ELSE SumTotals(SelectSeq(res.data, IsCompleted)),
                   !.isLoading = FALSE]

\* completeOrderMutation.onSuccess: setQueryData(["/api/orders"], ...) is the key
\* of the query shown in part_006 and part_008, not in part_009
BonSuccess(B, updatedOrder) ==
  [B EXCEPT !.orders = IF B.screen = "part_009" THEN @ ELSE MarkCompleted(@, updatedOrder.id),
            !.totalRevenue = IF B.screen = "part_006" THEN @ ELSE @ + updatedOrder.total]

RECURSIVE MaxId(_)
\* .reduce((maxId, o) => Math.max(maxId, o.id), 0)
MaxId(s) ==
  IF s = <<>> THEN 0
  ELSE LET rest == MaxId(Tail(s)) IN IF s[1].id > rest THEN s[1].id ELSE rest

\* handleReset, confirmed
BhandleReset(B) ==
  LET saved == [base_revenue |-> BtotalRevenue(B),
                base_completed |-> Len(BcompletedOrders(B)),
                last_completed_id |-> IF B.screen = "part_009"
                                        THEN MaxId(BcompletedOrders(B))
                                        ELSE B.localStorage.last_completed_id]
      keyChanges == B.screen = "part_009" /\ saved.last_completed_id # BqueryKey(B)
  IN [B EXCEPT !.localStorage = saved,
               !.baseRevenue = saved.base_revenue,
               !.baseCompleted = saved.base_completed,
               !.orders = IF keyChanges THEN <<>> ELSE @,
               !.isLoading = IF keyChanges THEN TRUE ELSE @]

\* the page is loaded: the useState initialisers read localStorage, the query has no data
BMounted(screen, saved) ==
  [screen |-> screen, orders |-> <<>>, totalRevenue |-> 0,
   baseRevenue |-> saved.base_revenue, baseCompleted |-> saved.base_completed,
   localStorage |-> saved, isLoading |-> TRUE]

baselineOthers ==
  <<d2Vars, d1Vars, p7Vars, wsQ, timer, insertedAt, rawOrders, jsRevenue, effects,
    serverVars, hook, card, stats, simulator>>

BMount ==
  /\ baseline.screen = "none"
  /\ \E screen \in BaselineScreens : baseline' = BMounted(screen, baseline.localStorage)
  /\ UNCHANGED envVars
  /\ UNCHANGED baselineOthers

\* the page is loaded again; what was in flight to the old page is dropped
BReload ==
  /\ baseline.screen # "none"
  /\ baseline' = BMounted(baseline.screen, baseline.localStorage)
  /\ poll' = IdlePoll
  /\ patches' = [id \in Ids |-> NoPatch]
  /\ UNCHANGED <<now, store, pushQ, clicks>>
  /\ UNCHANGED baselineOthers

BPollStart ==
  /\ baseline.screen # "none"
  /\ poll.phase = "idle"
  /\ poll' = [phase |-> "sent", rt |-> 0, data |-> <<>>]
  /\ UNCHANGED <<now, store, pushQ, patches, clicks>>
  /\ UNCHANGED clientVars

BPollResponse ==
  /\ poll.phase \in {"ok", "fail"}
  /\ baseline' = BqueryFn(baseline, [ok |-> poll.phase = "ok", data |-> poll.data])
  /\ poll' = IdlePoll
  /\ UNCHANGED <<now, store, pushQ, patches, clicks>>
  /\ UNCHANGED baselineOthers

\* Complete pressed on a card of pendingOrders
BComplete(id) ==
  /\ ~baseline.isLoading
  /\ clicks < MaxCompletes
  /\ \E i \in 1..Len(baseline.orders) :
       baseline.orders[i].id = id /\ IsPending(baseline.orders[i])
  /\ patches' = [patches EXCEPT ![id].sent = @ + 1]
  /\ clicks' = clicks + 1
  /\ UNCHANGED <<now, store, pushQ, poll>>
  /\ UNCHANGED clientVars

BCompleteOk(id) ==
  /\ patches[id].ok > 0
  /\ patches' = [patches EXCEPT ![id].ok = @ - 1]
  /\ baseline' = BonSuccess(baseline, store[id])
  /\ UNCHANGED <<now, store, pushQ, poll, clicks>>
  /\ UNCHANGED baselineOthers

\* onError shows a toast (part_006), or nothing is registered
BCompleteFail(id) ==
  /\ patches[id].fail > 0
  /\ patches' = [patches EXCEPT ![id].fail = @ - 1]
  /\ UNCHANGED <<now, store, pushQ, poll, clicks>>
  /\ UNCHANGED clientVars

\* Reset pressed and confirmed; in part_009 a new query key starts a new fetch,
\* taken here only when no fetch of the old key is in flight
BReset ==
  /\ baseline.screen # "none"
  /\ ~baseline.isLoading
  /\ baseline' = BhandleReset(baseline)
  /\ BqueryKey(baseline') # BqueryKey(baseline) => poll.phase = "idle"
  /\ poll' = IF BqueryKey(baseline') # BqueryKey(baseline)
               THEN [phase |-> "sent", rt |-> 0, data |-> <<>>]
               ELSE poll
  /\ UNCHANGED <<now, store, pushQ, patches, clicks>>
  /\ UNCHANGED baselineOthers

NextBaseline ==
  \/ CreateOrderOffline
  \/ PollServe
  \/ \E id \in Ids : ServePatch(id)
  \/ BMount
  \/ BReload
  \/ BPollStart
  \/ BPollResponse
  \/ \E id \in Ids : BComplete(id)
  \/ \E id \in Ids : BCompleteOk(id)
  \/ \E id \in Ids : BCompleteFail(id)
  \/ BReset

SpecBaseline == Init /\ [][NextBaseline]_vars

\* ------------------------------------------------------------------ server, order simulator
\* setInterval(..., 8000)
SimulatorInterval == 8000

\* sampleOrders: the entries are numbered from 0 as the array is
SampleOrders == 0..(MaxSamples - 1)

\* the interval callback up to its await: it reads orderIndex and calls
\* storage.createOrder(sampleOrders[orderIndex]), whose promise is pending
SimulatorCallback(S) ==
  IF S.orderIndex < MaxSamples
    THEN [S EXCEPT !.pending = Append(@, S.orderIndex), !.ticks = @ + 1]
    ELSE [S EXCEPT !.ticks = @ + 1]

RemoveAt(s, k) == [i \in 1..(Len(s) - 1) |-> IF i < k THEN s[i] ELSE s[i + 1]]

\* the k-th pending createOrder is fulfilled: the callback goes on with
\* broadcast({type: 'NEW_ORDER', order}) and orderIndex++
SimulatorFulfilled(S, k) ==
  [S EXCEPT !.pending = RemoveAt(@, k),
            !.created = Append(@, S.pending[k]),
            !.broadcasts = Append(@, S.pending[k]),
            !.orderIndex = @ + 1]

\* the k-th pending createOrder is rejected: the catch logs the error
SimulatorRejected(S, k) == [S EXCEPT !.pending = RemoveAt(@, k)]

simulatorOthers == <<store, screenVarsNoClock, serverVars, hook, card, stats, baseline>>

\* the interval fires, 8 seconds after it was set or last fired
SimulatorTick ==
  /\ simulator.ticks < MaxSimulatorTicks
  /\ simulator' = SimulatorCallback(simulator)
  /\ now' = now + SimulatorInterval
  /\ UNCHANGED simulatorOthers

CreateOrderFulfilled(k) ==
  /\ k \in 1..Len(simulator.pending)
  /\ simulator' = SimulatorFulfilled(simulator, k)
  /\ UNCHANGED <<now, simulatorOthers>>

CreateOrderRejected(k) ==
  /\ k \in 1..Len(simulator.pending)
  /\ simulator' = SimulatorRejected(simulator, k)
  /\ UNCHANGED <<now, simulatorOthers>>

NextSimulator ==
  \/ SimulatorTick
  \/ \E k \in 1..MaxSimulatorTicks : CreateOrderFulfilled(k)
  \/ \E k \in 1..MaxSimulatorTicks : CreateOrderRejected(k)

SpecSimulator == Init /\ [][NextSimulator]_vars

\* ------------------------------------------------------------------ properties, second screen
D2Res == [ok |-> poll.phase = "ok", data |-> poll.data]

NoDuplicateIds(s) == \A i, j \in 1..Len(s) : s[i].id = s[j].id => i = j

\* C1: in every reachable state the displayed list (uiOrders) and the query cache
\* hold at most one entry per order id.
C1_UniqueIds == NoDuplicateIds(uiOrders) /\ NoDuplicateIds(queryData)

\* C4: after reset() at time T an order created before T and completed is not in
\* the completed list and adds nothing to totalRevenue (when every completed
\* order of the store predates the reset, the revenue is 0), whatever requests
\* were in flight at the reset; the order is still in the store.
C4_ResetIsolatesHistory ==
  resetTimestamp # 0 =>
    /\ \A i \in 1..Len(uiOrders) :
         ~(uiOrders[i].created_at < resetTimestamp /\ IsCompleted(uiOrders[i]))
    /\ (\A k \in 1..Len(store) :
          IsCompleted(store[k]) => store[k].created_at < resetTimestamp)
         => totalRevenue = 0
    /\ \A id \in 1..Len(store) : Exists(store, id)

\* C5: the displayed totalRevenue is the sum of the amounts of exactly the
\* orders displayed as completed.
C5_RevenueMatchesCompleted == totalRevenue = SumTotals(SelectSeq(uiOrders, IsCompleted))

D2LedgerVars == <<queryData, totalRevenue, newOrderIds, resetTimestamp, uiOrders>>

\* a step in which Complete was pressed for id
Clicked(id) == patches'[id].sent = patches[id].sent + 1
\* a step in which the confirmation of a PATCH for id was handled
Confirmed(id) == patches'[id].ok = patches[id].ok - 1
\* a step in which a non-OK answer to a PATCH for id was handled
Rejected(id) == patches'[id].fail = patches[id].fail - 1
\* a step in which a failed fetch of the order list was handled
FetchFailed == poll.phase = "fail" /\ poll'.phase = "idle"

StatusIn(s, id) == {s[i].status : i \in {j \in 1..Len(s) : s[j].id = id}}

C8_FailureKeepsLedger ==
  [][(FetchFailed \/ \E id \in Ids : Rejected(id)) => UNCHANGED D2LedgerVars]_vars

\* C8 witness: a status update was rejected and a failed fetch is about to be
\* handled while the ledger shows orders.
C8_Witness == effects = {"toast_error"} /\ poll.phase = "fail" /\ uiOrders # <<>>

\* C9: applying the same poll snapshot twice in a row gives the state that
\* applying it once gives.
C9_SnapshotIdempotent ==
  poll.phase = "ok" =>
    LET once == D2queryFn(D2Ledger, D2Res, poll.rt)
    IN D2queryFn(once, D2Res, poll.rt) = once

\* C9 witness: a snapshot with a completed order is about to be applied to a
\* ledger that differs from it.
C9_Witness ==
  /\ poll.phase = "ok"
  /\ \E i \in 1..Len(poll.data) : IsCompleted(poll.data[i])
  /\ uiOrders # poll.data
  /\ uiOrders # <<>>

Entries(s) == {s[i] : i \in 1..Len(s)}

\* C10: a NEW_ORDER push for order X and a snapshot containing X give the same
\* displayed state (entries, number of cards, totalRevenue) in either order.
C10_OrderIndependent ==
  \A id \in pushQ :
    (poll.phase = "ok" /\ Exists(poll.data, id)) =>
      LET order == NewOrder(id, store[id].created_at)
          pushFirst == D2queryFn(D2handleNewOrder(D2Ledger, order), D2Res, poll.rt)
          pollFirst == D2handleNewOrder(D2queryFn(D2Ledger, D2Res, poll.rt), order)
      IN /\ Entries(pushFirst.uiOrders) = Entries(pollFirst.uiOrders)
         /\ Len(pushFirst.uiOrders) = Len(pollFirst.uiOrders)
         /\ pushFirst.totalRevenue = pollFirst.totalRevenue

\* ------------------------------------------------------------------ properties, other screens
\* C2: a NEW_ORDER event for an id the ledger already holds (a poll fetched it)
\* does not grow the ledger and fires no notification: no sound, no toast, no
\* new highlight.
C2_NoDuplicateNotification ==
  \A id \in pushQ :
    Exists(queryData, id) =>
      LET after == P3handleNewOrder(P3Ledger, NewOrder(id, store[id].created_at))
      IN /\ Len(after.queryData) = Len(queryData)
         /\ after.effects = {}
         /\ after.newOrderIds = newOrderIds

D1Displayed == D1filteredOrders(D1Ledger)

\* C3: once an order is displayed as completed, no later poll snapshot or push
\* event displays it as pending again.
C3_StatusMonotonic ==
  [][\A id \in Ids :
       "completed" \in StatusIn(D1Displayed, id) => "pending" \notin StatusIn(D1Displayed', id)]_vars

CountOf(s, id) == Cardinality({i \in 1..Len(s) : s[i].id = id})

\* C6: however often markCompleted runs for an order, the order is recorded at
\* most once among the completed orders and its amount is in the revenue
\* counter at most once.
C6_CountedOnce ==
  /\ \A id \in Ids : CountOf(completedOrders, id) <= 1
  /\ revenue <= SumTotals(SelectSeq(store, IsCompleted))

\* ------------------------------------------------------------------ properties, push channel
\* a step in which ws.onmessage handled a message of the given type
Handled(type) == wsQ # <<>> /\ wsQ' = Tail(wsQ) /\ Head(wsQ).type = type

\* C11: an ORDER_UPDATED message handled by the mounted second screen is merged
\* into the displayed entry with the same id, or inserted when there is none; in
\* the scenario (orders 1 and 2 displayed pending, revenue 0, update of order 1 to
\* completed) the ledger then shows order 2 pending, order 1 completed, and the
\* amount of order 1 as totalRevenue.
C11_OrderUpdatedMerged ==
  [][Handled("ORDER_UPDATED") =>
       LET o == Head(wsQ).order IN
         /\ StatusIn(uiOrders', o.id) = {o.status}
         /\ ( /\ StatusIn(uiOrders, 1) = {"pending"}
              /\ StatusIn(uiOrders, 2) = {"pending"}
              /\ totalRevenue = 0
              /\ o.id = 1
              /\ o.status = "completed" )
            => ( /\ StatusIn(uiOrders', 2) = {"pending"}
                 /\ totalRevenue' = o.total )]_vars

\* C12: a NEW_ORDER message handled by the mounted first screen, for an order that
\* is not displayed and was created after the reset boundary, leaves the order
\* displayed and highlighted.
C12_NewOrderHandled ==
  [][Handled("NEW_ORDER") =>
       LET o == Head(wsQ).order IN
         (~Exists(D1Displayed, o.id) /\ o.created_at > resetTime)
           => (Exists(D1Displayed', o.id) /\ o.id \in newOrderIds')]_vars

\* ------------------------------------------------------------------ properties, polling only
\* order id is in the store and was created after the first screen's reset boundary
CreatedAfterBoundary(id) ==
  \E i \in 1..Len(store) : store[i].id = id /\ store[i].created_at > resetTime

\* C13: with no socket open and polls that keep succeeding, an order created after
\* the reset boundary is eventually displayed (unless a later reset moves the
\* boundary past it).
C13_PollingDelivers ==
  \A id \in Ids :
    CreatedAfterBoundary(id) ~> (Exists(D1Displayed, id) \/ ~CreatedAfterBoundary(id))

\* ------------------------------------------------------------------ properties, reset
\* C14: no order created at or before the active reset boundary (equality
\* included) is displayed on the first screen, whether it came by push or by poll.
C14_BoundaryExcluded ==
  resetTime # 0 =>
    \A i \in 1..Len(D1Displayed) : D1Displayed[i].created_at > resetTime

\* C15: the second screen's reset boundary changes only in a confirmed reset (the
\* step that shows "Reset Done"); in particular a page reload keeps it.
C15_BoundaryOnlyByReset ==
  [][resetTimestamp' # resetTimestamp => effects' = {"toast_reset"}]_vars

\* C16: immediately after a confirmed reset of the first screen no order id is in
\* newOrderIds.
C16_ResetClearsHighlights ==
  [][D1Reset => newOrderIds' = {}]_vars

\* C17: a confirmed reset of the first screen leaves the Order Store as it is and
\* sends nothing to the server: the store, the GET in flight and the PATCH
\* requests in flight (and the messages pushed to the client) are unchanged.
C17_ResetIsLocal ==
  [][D1Reset => (store' = store /\ poll' = poll /\ patches' = patches /\ pushQ' = pushQ)]_vars

\* a reset was just confirmed while the store holds an order and a fetch is in flight
C17_Witness ==
  /\ effects = {"toast_reset"}
  /\ resetTime = now
  /\ Len(store) > 0
  /\ poll.phase = "sent"

\* ------------------------------------------------------------------ properties, highlight timer
\* C18: an order handled by handleNewOrder is highlighted at once, and it is not
\* highlighted any more once 5 s have passed since that moment.
C18_HighlightExpires ==
  \A id \in PushIds :
    /\ (insertedAt[id] = now) => id \in newOrderIds
    /\ (id \in newOrderIds) => now <= insertedAt[id] + HighlightDelay

\* C19: the moment an already highlighted order is due to lose its highlight is
\* not moved by a step that keeps it highlighted (such as a later NEW_ORDER), and
\* an order loses its highlight only when its own 5 s have passed.
C19_ExpiryPerOrder ==
  [][\A id \in PushIds :
       /\ (id \in newOrderIds /\ id \in newOrderIds') => timer' = timer
       /\ (id \in newOrderIds /\ id \notin newOrderIds')
            => now >= insertedAt[id] + HighlightDelay]_vars

\* ------------------------------------------------------------------ properties, revenue arithmetic
\* C20: totalRevenue is never NaN, whatever the amounts of the orders are, after a
\* recomputation from a poll snapshot and after an increment on confirmation.
C20_RevenueNeverNaN == ~jsRevenue.nan

\* ------------------------------------------------------------------ properties, server routes
\* a step in which the server handled a request of the given route
Answered(route) == requests' = requests + 1 /\ response'.route = route

\* the clients that are OPEN got exactly the message data, the others nothing
SentToOpenClients(data) ==
  \A c \in Clients :
    IF clients[c].open
      THEN clients'[c] = [clients[c] EXCEPT !.inbox = Append(@, data)]
      ELSE clients'[c] = clients[c]

C22_StoreStatusMonotonic ==
  [][\A i \in 1..Len(store) :
       store[i].status = "completed" => store'[i].status = "completed"]_vars

Live(H, e) == e \in 1..Len(H.isUnmounted) /\ ~H.isUnmounted[e]

\* the timeout set in this step, if any: it is the last one of hook'.timers
TimeoutSetFor(e) ==
  /\ Len(hook'.timers) = Len(hook.timers) + 1
  /\ hook'.timers[Len(hook'.timers)] =
       [owner |-> e, due |-> now + ReconnectDelay, state |-> "pending"]

\* the mounted hook has a socket connecting or open, or a reconnect pending
Retrying(H) ==
  H.mounted =>
    \/ \E i \in 1..Len(H.sockets) :
         H.sockets[i].owner = H.effect /\ H.sockets[i].state \in {"CONNECTING", "OPEN"}
    \/ \E k \in 1..Len(H.timers) :
         H.timers[k].owner = H.effect /\ H.timers[k].state = "pending"

\* C24: while the effect instance is live, the close of its socket and a throwing
\* `new WebSocket` each set a timeout due 3 s later; the timeout, when it fires,
\* makes a new connection attempt, not before it is due; so the mounted hook
\* always has a socket connecting or open or a reconnect pending.
C24_ReconnectAfterClose ==
  [][/\ \A i \in 1..Len(hook.sockets) :
          ( /\ hook.sockets[i].state # "CLOSED"
            /\ hook'.sockets[i].state = "CLOSED"
            /\ Live(hook, hook.sockets[i].owner) )
          => TimeoutSetFor(hook.sockets[i].owner)
     /\ ( /\ hook'.attempts = hook.attempts + 1
          /\ Len(hook'.sockets) = Len(hook.sockets) )
          => TimeoutSetFor(hook'.effect)
     /\ \A k \in 1..Len(hook.timers) :
          ( /\ hook.timers[k].state = "pending"
            /\ hook'.timers[k].state = "fired"
            /\ Live(hook, hook.timers[k].owner) )
          => (hook'.attempts = hook.attempts + 1 /\ now >= hook.timers[k].due)
     /\ Retrying(hook')]_vars

\* a socket was closed, its reconnect timeout fired and the next socket is open
C24_Witness ==
  /\ hook.mounted
  /\ Len(hook.sockets) >= 2
  /\ hook.sockets[1].state = "CLOSED"
  /\ hook.sockets[2].state = "OPEN"
  /\ hook.sockets[2].owner = hook.sockets[1].owner
  /\ \E k \in 1..Len(hook.timers) : hook.timers[k].state = "fired"

\* C30: an effect instance whose cleanup has run calls no callback, sets no
\* reconnect timeout and creates no socket; and at most one socket of the hook is
\* connecting or open.
C30_CleanupIsFinal ==
  [][/\ \A e \in 1..Len(hook.isUnmounted) :
          hook.isUnmounted[e] =>
            /\ hook'.called[e] = hook.called[e]
            /\ \A k \in (Len(hook.timers) + 1)..Len(hook'.timers) : hook'.timers[k].owner # e
            /\ \A i \in (Len(hook.sockets) + 1)..Len(hook'.sockets) : hook'.sockets[i].owner # e
     /\ Cardinality({i \in 1..Len(hook'.sockets) :
                       hook'.sockets[i].state \in {"CONNECTING", "OPEN"}}) <= 1]_vars

\* the first effect instance was cleaned up, its socket is closed and called no
\* callback although messages arrived; the second instance has an open socket
C30_Witness ==
  /\ hook.effect = 2
  /\ hook.isUnmounted[1]
  /\ hook.received > 0
  /\ hook.called[1] = 0
  /\ \E i, j \in 1..Len(hook.sockets) :
       /\ hook.sockets[i].owner = 1
       /\ hook.sockets[i].state = "CLOSED"
       /\ hook.sockets[j].owner = 2
       /\ hook.sockets[j].state = "OPEN"

\* ------------------------------------------------------------------ properties, display order
\* the list is ordered by createdAt descending (equal createdAt in any order of id)
Descending(s) == \A i, j \in 1..Len(s) : i < j => s[i].created_at >= s[j].created_at

\* C25: the second screen's list is ordered by createdAt descending after every
\* poll snapshot and every push insertion, at least when the list was so ordered
\* before and the snapshot came from the server so ordered.
C25_DisplayOrdered ==
  [][(Descending(uiOrders) /\ Descending(poll.data)) => Descending(uiOrders')]_vars

\* ------------------------------------------------------------------ properties, OrderCard
IsPositiveInteger(v) == v.kind = "number" /\ v.val >= 1
IsNonNegativeNumber(v) == v.kind = "number" /\ v.val >= 0

\* C26: "2x Margherita Pizza" is shown as quantity 2 of "Margherita Pizza", the
\* object {name: "Salad"} as quantity 1 of "Salad" at price 0, and every item,
\* whatever its shape, is shown with a positive integer quantity and a
\* non-negative price.
C26_ItemNormalisation ==
  (card.rendered /\ card.items.kind = "array") =>
    \A i \in 1..Len(card.safeItems) :
      LET item == card.items.elems[i]
          safe == card.safeItems[i]
      IN /\ item = JsString(MargheritaItem) =>
              safe.quantity = JsNumber(2) /\ safe.name = JsString(SubSeq(MargheritaItem, 4, 19))
         /\ item = [kind |-> "object", name |-> JsString(Salad), quantity |-> JsUndefined,
                    qty |-> JsUndefined, price |-> JsUndefined] =>
              safe = [quantity |-> JsNumber(1), name |-> JsString(Salad), price |-> JsNumber(0)]
         /\ IsPositiveInteger(safe.quantity)
         /\ IsNonNegativeNumber(safe.price)

\* ------------------------------------------------------------------ properties, statistics cards
\* the amounts of the completed orders counted are 45.50, 28.75 and 32.00
ThreeAmounts ==
  /\ Len(stats.completed) = 3
  /\ stats.completed[1].total = 4550
  /\ stats.completed[2].total = 2875
  /\ stats.completed[3].total = 3200

\* C27: with completed orders of 45.50, 28.75 and 32.00 the cards show a revenue
\* of 106.25 and an average order value of 35.42; with no completed order
\* counted the average shown is "0.00".
C27_RevenueAndAverage ==
  stats.screen # "none" =>
    /\ ThreeAmounts => stats.shown.todayRevenue = 10625 /\ stats.shown.averageOrderValue = 3542
    /\ Len(stats.completed) = 0 => stats.shown.averageOrderValue = 0
    /\ stats.shown.completedOrders = Len(stats.completed)

C27_Witness ==
  /\ stats.screen = "part_005"
  /\ ThreeAmounts
  /\ stats.shown.averageOrderValue = 3542

\* ------------------------------------------------------------------ properties, baseline counters
\* C28: on the baseline-counter screens the revenue shown (totalRevenue minus
\* baseRevenue) and the completed count shown are never negative, whatever
\* polls, completions, resets and reloads came before.
C28_CountersNotNegative ==
  (baseline.screen # "none" /\ ~baseline.isLoading) =>
    /\ BdisplayedRevenue(baseline) >= 0
    /\ BdisplayedCompleted(baseline) >= 0

\* ------------------------------------------------------------------ properties, order simulator
\* C29: the simulator creates and broadcasts each entry of sampleOrders at most
\* once and in index order, also when a createOrder call is still pending at the
\* next tick of the interval, and orderIndex never exceeds sampleOrders.length.
C29_EachSampleOnce ==
  /\ \A i, j \in 1..Len(simulator.created) : i < j => simulator.created[i] < simulator.created[j]
  /\ \A i, j \in 1..Len(simulator.broadcasts) :
       i < j => simulator.broadcasts[i] < simulator.broadcasts[j]
  /\ simulator.orderIndex <= MaxSamples

====
